---- MODULE Spec2Model ----
(***************************************************************************)
(* Model of the kidney CT classification service (src/app.py): the user    *)
(* table, the login sessions, the upload folder, the PredictionHistory     *)
(* table and the request handlers signup, login, logout, predict, history  *)
(* and download_report.  predict is split at the points where it touches   *)
(* shared state (the upload folder and the database), so that concurrent   *)
(* requests interleave as the threads of the server can.                   *)
(***************************************************************************)
EXTENDS Integers, Sequences, FiniteSets, TLC

(* ---------------------------- bounds ----------------------------------- *)
\* number of predict requests that pass the file checks in one run
MaxRequests == 2
\* last value of the UTC clock
MaxClock == 1
\* a score is k / ScoreDen for k in 0..ScoreDen
ScoreDen == 2

Requests == 1..MaxRequests
Usernames == {"alice", "bob"}
Passwords == {"pw1"}
\* what a login form can send: a registered password or a wrong guess
LoginPasswords == Passwords \cup {"guess"}
\* file names a client can send; "" is the empty file name of line 102
Filenames == {"scan.png", "ct.jpg"}
ValidImages == {"ctA", "ctB"}
\* bytes that no image decoder accepts, and the empty byte string
BadBytes == "garbage"
EmptyBytes == ""
Uploads == ValidImages \cup {BadBytes, EmptyBytes}
NoFile == "<absent>"

(* ---------------------------- state ------------------------------------ *)
VARIABLES
    model,      \* the loaded classifier: image -> score vector
    users,      \* rows of the user table
    session,    \* ids of the users that hold a login session
    files,      \* upload folder: file path -> bytes stored there
    records,    \* rows of the prediction_history table
    clock,      \* datetime.utcnow
    pc,         \* predict request -> its position in predict()
    loc,        \* predict request -> its local variables
    infers,     \* predict request -> number of model.predict calls it made
    prov,       \* per record: the request that created it, the bytes it sent, the image it classified
    resp        \* the response the last step sent, NoResponse if it sent none

vars == <<model, users, session, files, records, clock, pc, loc, infers, prov, resp>>

labels == <<"Cyst", "Normal", "Stone", "Tumor">>
NumLabels == 4
ScoreVectors == [1..NumLabels -> 0..ScoreDen]

UPLOAD_FOLDER == <<"static", "uploads">>

\* os.path.join(app.config['UPLOAD_FOLDER'], filename)
Filepath(filename) == Append(UPLOAD_FOLDER, filename)
ImagePathNoName(filename) == <<"uploads", "">>

\* os.path.join('uploads', filename)
ImagePath(filename) == <<"uploads", filename>>
\* the file of the static folder that a stored image_path refers to
StaticFile(path) == <<"static">> \o path

Filepaths == {Filepath(f) : f \in Filenames}

(* ---------------------------- pure functions --------------------------- *)
Max2(a, b) == IF a >= b THEN a ELSE b

RECURSIVE ArgMaxLastFrom(_, _, _)
ArgMaxLastFrom(v, i, best) ==
    IF i > Len(v) THEN best
    ELSE ArgMaxLastFrom(v, i + 1, IF v[i] >= v[best] THEN i ELSE best)

RECURSIVE ArgMaxFrom(_, _, _)
\* np.argmax: scan left to right, keep the first index of the largest value
ArgMaxFrom(v, i, best) ==
    IF i > Len(v) THEN best
    ELSE ArgMaxFrom(v, i + 1, IF v[i] > v[best] THEN i ELSE best)

ArgMaxLast(v) == ArgMaxLastFrom(v, 2, 1)

ArgMax(v) == ArgMaxFrom(v, 2, 1)

RECURSIVE MaxFrom(_, _, _)
MaxFrom(v, i, m) == IF i > Len(v) THEN m ELSE MaxFrom(v, i + 1, Max2(m, v[i]))

\* np.max
NpMax(v) == MaxFrom(v, 2, v[1])

\* round(score * 100, 2), in hundredths of a percent, ties to even
Round2(k) ==
    LET n == k * 10000
        q == n \div ScoreDen
        r == n % ScoreDen
    IN  IF 2 * r > ScoreDen \/ (2 * r = ScoreDen /\ q % 2 = 1) THEN q + 1 ELSE q

\* generate_password_hash / check_password_hash
PasswordHash(p) == <<"hash", p>>
CheckPasswordHash(h, p) == h = PasswordHash(p)

MaxOf(S) == CHOOSE x \in S : \A y \in S : y <= x

NextUserId == IF users = {} THEN 1 ELSE MaxOf({u.id : u \in users}) + 1

\* INTEGER PRIMARY KEY of prediction_history: one more than the largest id
NextRecordId(recs) == IF recs = {} THEN 1 ELSE MaxOf({r.id : r \in recs}) + 1

InsertReplacingImage(recs, row) == {r \in recs : r.image_path # row.image_path} \cup {row}

InsertTwice(recs, row) == recs \cup {row, [row EXCEPT !.id = row.id + 1]}

\* lines 124-125: db.session.add(history); db.session.commit()
Insert(recs, row) == recs \cup {row}

\* PredictionHistory.query.get
Get(id) == {r \in records : r.id = id}

Idle == [state |-> "idle"]
NoResponse == [kind |-> "none"]

(* ---------------------------- Init ------------------------------------- *)
\* the classifier the service runs with
TrainedModel ==
    [i \in ValidImages |->
        IF i = "ctA" THEN <<0, ScoreDen, 0, 0>> ELSE <<ScoreDen, 0, 0, ScoreDen>>]

InitRest ==
    /\ files = [p \in Filepaths |-> NoFile]
    /\ records = {}
    /\ clock = 0
    /\ pc = [q \in Requests |-> "new"]
    /\ loc = [q \in Requests |-> Idle]
    /\ infers = [q \in Requests |-> 0]
    /\ prov = {}
    /\ resp = NoResponse

Init ==
    /\ model = TrainedModel
    /\ users = {}
    /\ session = {}
    /\ InitRest

(* ---------------------------- auth handlers ---------------------------- *)
\* lines 63-74
Signup ==
    \E username \in Usernames, password \in Passwords :
        /\ IF \E u \in users : u.username = username
           THEN UNCHANGED users
           ELSE users' = users \cup {[id |-> NextUserId, username |-> username,
                                      password |-> PasswordHash(password)]}
        /\ resp' = NoResponse
        /\ UNCHANGED <<model, session, files, records, clock, pc, loc, infers, prov>>

\* lines 76-87
Login ==
    \E username \in Usernames, password \in LoginPasswords :
        /\ LET found == {u \in users : u.username = username}
           IN  IF found # {} /\ \A u \in found : CheckPasswordHash(u.password, password)
               THEN session' = session \cup {u.id : u \in found}
               ELSE UNCHANGED session
        /\ resp' = NoResponse
        /\ UNCHANGED <<model, users, files, records, clock, pc, loc, infers, prov>>

\* lines 89-93
Logout ==
    \E uid \in session :
        /\ session' = session \ {uid}
        /\ resp' = NoResponse
        /\ UNCHANGED <<model, users, files, records, clock, pc, loc, infers, prov>>

Tick ==
    /\ clock < MaxClock
    /\ clock' = clock + 1
    /\ resp' = NoResponse
    /\ UNCHANGED <<model, users, session, files, records, pc, loc, infers, prov>>

(* ---------------------------- predict --------------------------------- *)
\* the request a new predict call becomes: the first one not yet started
NewRequest == {q \in Requests : pc[q] = "new" /\ \A p \in 1..(q - 1) : pc[p] # "new"}

\* lines 96-103: a logged-in request without a file part or with an empty file name
PredictReject ==
    \E uid \in session, hasFile \in BOOLEAN, filename \in Filenames \cup {""} :
        /\ ~hasFile \/ filename = ""
        /\ resp' = [kind |-> "predict", status |-> 400,
                    body |-> IF ~hasFile THEN "No file uploaded!" ELSE "No selected file!"]
        /\ UNCHANGED <<model, users, session, files, records, clock, pc, loc, infers, prov>>

\* lines 98-107: the two file checks pass, file.save
PredictBeginFrom(names, uploads) ==
    \E q \in NewRequest, uid \in session, filename \in names, bytes \in uploads :
        /\ files' = [files EXCEPT ![Filepath(filename)] = bytes]
        /\ loc' = [loc EXCEPT ![q] = [user_id |-> uid, filename |-> filename, bytes |-> bytes]]
        /\ pc' = [pc EXCEPT ![q] = "load"]
        /\ resp' = NoResponse
        /\ UNCHANGED <<model, users, session, records, clock, infers, prov>>

PredictBegin == PredictBeginFrom(Filenames, Uploads)

\* lines 109-113: image.load_img of the stored file, then model.predict
PredictLoad ==
    \E q \in Requests :
        /\ pc[q] = "load"
        /\ LET img == files[Filepath(loc[q].filename)]
           IN  IF img \in ValidImages
               THEN /\ loc' = [loc EXCEPT ![q] = [user_id |-> loc[q].user_id,
                                                  filename |-> loc[q].filename, bytes |-> loc[q].bytes,
                                                  img |-> img, preds |-> model[img]]]
                    /\ infers' = [infers EXCEPT ![q] = @ + 1]
                    /\ pc' = [pc EXCEPT ![q] = "commit"]
                    /\ resp' = NoResponse
               ELSE \* load_img raises; the request ends with the server's error page
                    /\ resp' = [kind |-> "predict", status |-> 500, body |-> "UnidentifiedImageError",
                                req |-> q, bytes |-> loc[q].bytes]
                    /\ loc' = [loc EXCEPT ![q] = Idle]
                    /\ pc' = [pc EXCEPT ![q] = "done"]
                    /\ UNCHANGED infers
        /\ UNCHANGED <<model, users, session, files, records, clock, prov>>

\* the row lines 118-123 build and lines 124-125 insert
HistoryRow(q, recs) ==
    [id |-> NextRecordId(recs),
     user_id |-> loc[q].user_id,
     prediction |-> labels[ArgMax(loc[q].preds)],
     confidence |-> Round2(NpMax(loc[q].preds)),
     date |-> clock,
     image_path |-> ImagePath(loc[q].filename)]

\* lines 114-125
PredictCommit ==
    \E q \in Requests :
        /\ pc[q] = "commit"
        /\ LET history == HistoryRow(q, records)
           IN  /\ records' = Insert(records, history)
               /\ prov' = prov \cup {[id |-> history.id, req |-> q,
                                      img |-> loc[q].img, bytes |-> loc[q].bytes]}
               /\ loc' = [loc EXCEPT ![q] = [user_id |-> loc[q].user_id,
                                             filename |-> loc[q].filename, bytes |-> loc[q].bytes,
                                             img |-> loc[q].img, preds |-> loc[q].preds,
                                             predicted_class |-> history.prediction,
                                             confidence |-> history.confidence,
                                             history_id |-> history.id]]
        /\ pc' = [pc EXCEPT ![q] = "respond"]
        /\ resp' = NoResponse
        /\ UNCHANGED <<model, users, session, files, clock, infers>>

LastRecordId(q) == MaxOf({r.id : r \in records})

\* history.id as line 137 reads it
HistoryId(q) == loc[q].history_id

\* lines 127-138
PredictRespond ==
    \E q \in Requests :
        /\ pc[q] = "respond"
        /\ resp' = [kind |-> "predict", status |-> 200,
                    prediction |-> loc[q].predicted_class,
                    confidence |-> loc[q].confidence,
                    image_path |-> StaticFile(ImagePath(loc[q].filename)),
                    class_confidences |-> [i \in 1..NumLabels |-> Round2(loc[q].preds[i])],
                    record_id |-> HistoryId(q),
                    req |-> q, user_id |-> loc[q].user_id,
                    filename |-> loc[q].filename, bytes |-> loc[q].bytes]
        /\ loc' = [loc EXCEPT ![q] = Idle]
        /\ pc' = [pc EXCEPT ![q] = "done"]
        /\ UNCHANGED <<model, users, session, files, records, clock, infers, prov>>

(* ---------------------------- history --------------------------------- *)
\* the sequences that hold each element of S once
Orderings(S) ==
    {s \in [1..Cardinality(S) -> S] : \A i, j \in 1..Cardinality(S) : i # j => s[i] # s[j]}

OrderedByDateAsc(s) == \A i, j \in 1..Len(s) : i < j => s[i].date <= s[j].date

\* order_by(PredictionHistory.date.desc()): rows of equal date come in any order
OrderedByDateDesc(s) == \A i, j \in 1..Len(s) : i < j => s[i].date >= s[j].date

\* line 143: filter_by(user_id=...).order_by(date.desc()).all()
QueryHistory(uid) ==
    {s \in Orderings({r \in records : r.user_id = uid}) : OrderedByDateDesc(s)}

\* lines 140-144
History ==
    \E uid \in session :
        /\ \E listing \in QueryHistory(uid) :
               resp' = [kind |-> "history", status |-> 200, user_id |-> uid, records |-> listing]
        /\ UNCHANGED <<model, users, session, files, records, clock, pc, loc, infers, prov>>

(* ---------------------------- download_report ------------------------- *)
\* strftime('%Y-%m-%d %H:%M:%S') of a clock value
FormatDate(d) == <<"1970-01-01 00:00:", d>>

\* lines 153-166: the lines of the report
Render(record) ==
    << <<"Kidney Disease Prediction Report">>,
       <<"Prediction: ", record.prediction>>,
       <<"Confidence: ", record.confidence, "%">>,
       <<"Date: ", FormatDate(record.date)>>,
       <<"Image Path: ", record.image_path>> >>

NotSameNumber(record, uid) == record.id # uid

\* line 150
NotOwner(record, uid) == record.user_id # uid

\* record ids a client can ask for: those in use and one that is not
RecordIds == 1..(MaxRequests + 1)

\* lines 146-168
DownloadReport ==
    \E uid \in session, record_id \in RecordIds :
        /\ IF Get(record_id) = {}
           THEN resp' = [kind |-> "download_report", status |-> 404, body |-> "Not Found",
                         user_id |-> uid, record_id |-> record_id]
           ELSE LET record == CHOOSE r \in Get(record_id) : TRUE
                IN  IF NotOwner(record, uid)
                    THEN resp' = [kind |-> "download_report", status |-> 403, body |-> "Unauthorized",
                                  user_id |-> uid, record_id |-> record_id]
                    ELSE resp' = [kind |-> "download_report", status |-> 200, pdf |-> Render(record),
                                  user_id |-> uid, record_id |-> record_id]
        /\ UNCHANGED <<model, users, session, files, records, clock, pc, loc, infers, prov>>

Next ==
    \/ Signup \/ Login \/ Logout \/ Tick
    \/ PredictReject \/ PredictBegin \/ PredictLoad \/ PredictCommit \/ PredictRespond
    \/ History \/ DownloadReport

Spec == Init /\ [][Next]_vars

(* ---------------------------- the resolver on every score vector ------- *)
\* alice has signed up and logged in; the classifier gives image ctA any scores
InitResolve ==
    /\ model \in {m \in [ValidImages -> ScoreVectors] : m["ctB"] = TrainedModel["ctB"]}
    /\ users = {[id |-> 1, username |-> "alice", password |-> PasswordHash("pw1")]}
    /\ session = {1}
    /\ InitRest

NextResolve ==
    \/ PredictBeginFrom({"scan.png"}, {"ctA"})
    \/ PredictLoad \/ PredictCommit \/ PredictRespond

SpecResolve == InitResolve /\ [][NextResolve]_vars

(* ---------------------------- properties ------------------------------ *)
ProvOf(id) == {p \in prov : p.id = id}
CreatedBy(q) == {p \in prov : p.req = q}

RECURSIVE SumInfers(_)
\* model.predict calls of requests 1..n that are not between inference and insert
SumInfers(n) ==
    IF n = 0 THEN 0
    ELSE SumInfers(n - 1) + (IF pc[n] = "commit" THEN 0 ELSE infers[n])

\* i is the lowest index that holds the maximum of v
LowestMaxIndex(v, i) ==
    /\ \A j \in 1..Len(v) : v[j] <= v[i]
    /\ \A j \in 1..(i - 1) : v[j] < v[i]

\* C1: a download_report request for a record owned by another identity ends
\* with the authorization failure and carries no document; a document is
\* returned only for a record whose user_id is the requester's id.
C1_ReportOnlyToOwner ==
    resp.kind = "download_report" =>
        /\ \A r \in Get(resp.record_id) :
               r.user_id # resp.user_id =>
                   resp.status = 403 /\ resp.body = "Unauthorized" /\ "pdf" \notin DOMAIN resp
        /\ "pdf" \in DOMAIN resp =>
               \E r \in Get(resp.record_id) : r.user_id = resp.user_id /\ resp.pdf = Render(r)

\* C1 witness: with records of two users stored, a user asks for the other's report
C1_Witness ==
    /\ resp.kind = "download_report"
    /\ resp.status = 403
    /\ \E r \in Get(resp.record_id) : r.user_id # resp.user_id
    /\ \E r \in records : r.user_id = resp.user_id

\* C2: the file that a record's image_path refers to holds the image that the
\* record's classification was computed from.
C2_ImageOutlivesRecord ==
    \A r \in records : \A p \in ProvOf(r.id) : files[StaticFile(r.image_path)] = p.img

\* C3: the record id a successful predict returns identifies one record, and
\* that record has the requester's identity, the label and confidence returned,
\* and the reference of the uploaded file.
C3_WriteThenRead ==
    (resp.kind = "predict" /\ resp.status = 200) =>
        /\ Cardinality(Get(resp.record_id)) = 1
        /\ \A r \in Get(resp.record_id) :
               /\ r.user_id = resp.user_id
               /\ r.prediction = resp.prediction
               /\ r.confidence = resp.confidence
               /\ r.image_path = <<"uploads", resp.filename>>
               /\ <<"static">> \o r.image_path = resp.image_path

\* C3 witness: a predict response for the second record, stored under another file name
C3_Witness ==
    /\ resp.kind = "predict" /\ resp.status = 200
    /\ resp.record_id = 2
    /\ \E r \in Get(1) : r.image_path # <<"uploads", resp.filename>>

\* C4: a history listing holds each record of the requester once and no other
\* record, with dates non-increasing from first to last.
C4_HistoryListing ==
    resp.kind = "history" =>
        LET l == resp.records
        IN  /\ {l[i] : i \in 1..Len(l)} = {r \in records : r.user_id = resp.user_id}
            /\ Len(l) = Cardinality({r \in records : r.user_id = resp.user_id})
            /\ \A i \in 1..Len(l) : \A j \in (i + 1)..Len(l) : l[i].date >= l[j].date

\* C4 witness: a listing of two records of different dates
C4_Witness ==
    /\ resp.kind = "history"
    /\ Len(resp.records) = 2
    /\ resp.records[1].date > resp.records[2].date
    /\ resp.records[1].id > resp.records[2].id

\* C5: every step keeps every existing record as it is, and the table grows
\* only by the insert of a predict request, one record at a time.
C5_AppendOnly ==
    [][/\ \A r \in records : r \in records'
       /\ records' # records =>
              /\ Cardinality(records') = Cardinality(records) + 1
              /\ \E q \in Requests : pc[q] = "commit" /\ pc'[q] = "respond"]_vars

\* C5 witness: two records stored, one under a file name the other also uses, and a
\* report downloaded afterwards
C5_Witness ==
    /\ Cardinality(records) = 2
    /\ \A r1, r2 \in records : r1.image_path = r2.image_path
    /\ resp.kind = "download_report"

\* C6: no two requests get the same record id, and the id a request returns
\* is the id of the record that request inserted.
C6_UniqueIds ==
    /\ \A p1, p2 \in prov : p1.id = p2.id => p1.req = p2.req
    /\ \A r1, r2 \in records : r1.id = r2.id => r1 = r2
    /\ {r.id : r \in records} = {p.id : p \in prov}
    /\ (resp.kind = "predict" /\ resp.status = 200) =>
           \E p \in prov : p.id = resp.record_id /\ p.req = resp.req

\* C6 witness: two requests had inserted their rows before either responded, and the
\* one that inserted first responds last
C6_Witness ==
    /\ resp.kind = "predict" /\ resp.status = 200
    /\ resp.record_id = 1
    /\ \E q \in Requests : q # resp.req /\ pc[q] = "done" /\ CreatedBy(q) # {}

\* per request: at most one model.predict call and at most one record, the
\* record present exactly when the inference succeeded and the insert is done;
\* the records are as many as the inferences of the requests not between the two
C7_StateInv ==
    /\ \A q \in Requests :
           /\ infers[q] <= 1
           /\ Cardinality(CreatedBy(q)) <= 1
           /\ pc[q] \in {"respond", "done"} => Cardinality(CreatedBy(q)) = infers[q]
           /\ pc[q] \in {"new", "load", "commit"} => CreatedBy(q) = {}
           /\ pc[q] = "commit" <=> (infers[q] = 1 /\ CreatedBy(q) = {})
    /\ Cardinality(records) = SumInfers(MaxRequests)

C8_TopLabelLowestIndex ==
    /\ \A r \in records : \A p \in ProvOf(r.id) : \A i \in 1..NumLabels :
           LowestMaxIndex(model[p.img], i) => r.prediction = labels[i]
    /\ (resp.kind = "predict" /\ resp.status = 200) =>
           \A p \in ProvOf(resp.record_id) : \A i \in 1..NumLabels :
               LowestMaxIndex(model[p.img], i) => resp.prediction = labels[i]

\* C8 witness: scores that tie at the first two labels are stored and returned as Cyst
C8_Witness ==
    /\ resp.kind = "predict" /\ resp.status = 200 /\ resp.prediction = "Cyst"
    /\ \E p \in ProvOf(resp.record_id) :
           /\ model[p.img][1] = model[p.img][2]
           /\ model[p.img][1] > model[p.img][3]
           /\ model[p.img][3] = model[p.img][4]
    /\ \E r \in Get(resp.record_id) : r.prediction = "Cyst"

\* C9: a predict request whose bytes are empty or not an image ends with the
\* InvalidImage rejection, a 4xx response.
C9_InvalidImageRejected ==
    (resp.kind = "predict" /\ "bytes" \in DOMAIN resp /\ resp.bytes \notin ValidImages) =>
        resp.status = 400 /\ resp.body = "InvalidImage"

\* C10: the image a request classifies is the image that request uploaded.
C10_ClassifiesOwnUpload ==
    \A q \in Requests : pc[q] \in {"commit", "respond"} => loc[q].img = loc[q].bytes
====
